---- MODULE Spec2Model ----
(***************************************************************************)
(* Model of adafruit_minimqtt/matcher.py: MQTTMatcher, a prefix tree that  *)
(* associates values with MQTT topic filters.                              *)
(*                                                                         *)
(* Strings are sequences of one-character strings.  A node of the tree is  *)
(* identified by its path from the root (the sequence of children keys     *)
(* that leads to it); the tree is the function mapping the path of every   *)
(* existing node to that node's content.  The root is the empty path.      *)
(***************************************************************************)
EXTENDS Integers, Sequences, FiniteSets

\* ------------------------------------------------------------------ bounds
\* Longest filter and longest topic, in segments.
MaxSegs == 2
\* Largest number of non-root nodes a set call may leave in the tree.
MaxNodes == 2

\* ------------------------------------------------------------ the inputs
\* Python's None, the content of a node that holds no value.
None == 0

\* The values stored: two distinct values that are not None.
Values == {1, 2}

PLUS == <<"+">>
HASH == <<"#">>

\* The segments the filters and topics are made of: a literal, the two
\* wildcards, and a literal that starts with "$".
Segs == {<<"a">>, PLUS, HASH, <<"$", "s">>}

RECURSIVE Join(_)
Join(segs) ==
    IF Len(segs) = 1 THEN segs[1]
    ELSE segs[1] \o <<"/">> \o Join(Tail(segs))

SegSeqs(n) == UNION {[1..m -> Segs] : m \in 1..n}

\* The filter strings given to set, get and delete.
Keys == {Join(p) : p \in SegSeqs(MaxSegs)}
\* The topic strings given to iter_match.
Topics == {Join(p) : p \in SegSeqs(MaxSegs)}

\* ------------------------------------------------------- pure functions
\* str.split("/")
RECURSIVE SplitAcc(_, _, _)
SplitAcc(s, cur, acc) ==
    IF s = <<>> THEN Append(acc, cur)
    ELSE IF Head(s) = "/" THEN SplitAcc(Tail(s), <<>>, Append(acc, cur))
    ELSE SplitAcc(Tail(s), Append(cur, Head(s)), acc)

Split(s) == SplitAcc(s, <<>>, <<>>)

\* str.startswith("$")
StartsWithDollar(s) == Len(s) > 0 /\ s[1] = "$"

\* MQTTMatcher.__init__: a root node with no children and no content.
EmptyTrie == [p \in {<<>>} |-> None]

\* sym in node.children
HasChild(t, node, sym) == Append(node, sym) \in DOMAIN t

\* bool(node.children)
HasChildren(t, node) ==
    \E q \in DOMAIN t : Len(q) = Len(node) + 1 /\ SubSeq(q, 1, Len(node)) = node

Prefixes(segs) == {SubSeq(segs, 1, i) : i \in 1..Len(segs)}

\* __setitem__ that keeps the content of a node that already holds one.
SetitemKeepContent(t, key, value) ==
    LET segs == Split(key)
    IN [p \in DOMAIN t \cup Prefixes(segs) |->
            IF p \in DOMAIN t /\ t[p] # None THEN t[p]
            ELSE IF p = segs THEN value ELSE None]

\* __setitem__ putting a new node, without content, at every step of the
\* walk, in place of the node that is there.
SetitemResetsPath(t, key, value) ==
    LET segs == Split(key)
    IN [p \in DOMAIN t \cup Prefixes(segs) |->
            IF p = segs THEN value
            ELSE IF p \in Prefixes(segs) THEN None ELSE t[p]]

\* __setitem__: setdefault creates the missing nodes of the path, each with
\* content None, and the last node gets the value.
Setitem(t, key, value) ==
    LET segs == Split(key)
    IN [p \in DOMAIN t \cup Prefixes(segs) |->
            IF p = segs THEN value
            ELSE IF p \in DOMAIN t THEN t[p] ELSE None]

\* The first index i such that the node at segs[1..i] does not exist, or 0.
FirstMissing(t, segs) ==
    IF \A i \in 1..Len(segs) : SubSeq(segs, 1, i) \in DOMAIN t THEN 0
    ELSE CHOOSE i \in 1..Len(segs) :
            /\ SubSeq(segs, 1, i) \notin DOMAIN t
            /\ \A j \in 1..(i - 1) : SubSeq(segs, 1, j) \in DOMAIN t

\* The try block of __getitem__: the value returned, or the argument of the
\* KeyError raised (the missing children key, or the queried key when the
\* last node has no content).
GetTry(t, key) ==
    LET segs == Split(key)
        m == FirstMissing(t, segs)
    IN IF m # 0 THEN [ok |-> FALSE, val |-> None, err |-> segs[m]]
       ELSE IF t[segs] = None THEN [ok |-> FALSE, val |-> None, err |-> key]
       ELSE [ok |-> TRUE, val |-> t[segs], err |-> <<>>]

\* __getitem__ without the except clause: the KeyError of the try block
\* reaches the caller as it is.
GetitemUnwrapped(t, key) == GetTry(t, key)

\* __getitem__: every KeyError of the try block is replaced by KeyError(key).
Getitem(t, key) ==
    LET r == GetTry(t, key)
    IN IF r.ok THEN r ELSE [r EXCEPT !.err = key]

IsPrefix(q, p) == Len(q) <= Len(p) /\ SubSeq(p, 1, Len(q)) = q

\* del parent.children[k]: the node and all that is under it leave the tree.
Remove(t, node) == [p \in {q \in DOMAIN t : ~IsPrefix(node, q)} |-> t[p]]

\* The pruning loop testing the children only, not the content.
RECURSIVE PruneIgnoresContent(_, _, _)
PruneIgnoresContent(t, segs, i) ==
    IF i = 0 THEN t
    ELSE LET node == SubSeq(segs, 1, i)
         IN IF HasChildren(t, node) THEN t
            ELSE PruneIgnoresContent(Remove(t, node), segs, i - 1)

\* The pruning loop without the test of node.children: it takes out a node
\* that has no content, with whatever is under it.
RECURSIVE PruneIgnoresChildren(_, _, _)
PruneIgnoresChildren(t, segs, i) ==
    IF i = 0 THEN t
    ELSE LET node == SubSeq(segs, 1, i)
         IN IF t[node] # None THEN t
            ELSE PruneIgnoresChildren(Remove(t, node), segs, i - 1)

\* The pruning loop stopping after the last node of the path.
PruneLastOnly(t, segs, i) ==
    IF i = 0 THEN t
    ELSE LET node == SubSeq(segs, 1, i)
         IN IF HasChildren(t, node) \/ t[node] # None THEN t
            ELSE Remove(t, node)

\* The pruning loop of __delitem__, from the node at segs[1..i] towards the
\* root: it stops at the first node that has a child or a content.
RECURSIVE Prune(_, _, _)
Prune(t, segs, i) ==
    IF i = 0 THEN t
    ELSE LET node == SubSeq(segs, 1, i)
         IN IF HasChildren(t, node) \/ t[node] # None THEN t
            ELSE Prune(Remove(t, node), segs, i - 1)

\* The try block clearing the content of the last node the walk reached
\* before it raises.
DelTryClearsReached(t, key) ==
    LET segs == Split(key)
        m == FirstMissing(t, segs)
    IN IF m # 0
       THEN [ok |-> FALSE,
             trie |-> [t EXCEPT ![SubSeq(segs, 1, m - 1)] = None],
             err |-> segs[m]]
       ELSE [ok |-> TRUE, trie |-> [t EXCEPT ![segs] = None], err |-> <<>>]

\* The try block without node.content = None.
DelTryKeepsContent(t, key) ==
    LET segs == Split(key)
        m == FirstMissing(t, segs)
    IN IF m # 0 THEN [ok |-> FALSE, trie |-> t, err |-> segs[m]]
       ELSE [ok |-> TRUE, trie |-> t, err |-> <<>>]

\* The try block of __delitem__: the walk raises at the first missing node,
\* before anything is changed; otherwise the last node's content is cleared.
DelTry(t, key) ==
    LET segs == Split(key)
        m == FirstMissing(t, segs)
    IN IF m # 0 THEN [ok |-> FALSE, trie |-> t, err |-> segs[m]]
       ELSE [ok |-> TRUE, trie |-> [t EXCEPT ![segs] = None], err |-> <<>>]

\* __delitem__
Delitem(t, key) ==
    LET r == DelTry(t, key)
    IN IF r.ok THEN [r EXCEPT !.trie = Prune(r.trie, Split(key), Len(Split(key)))]
       ELSE [r EXCEPT !.err = key]

\* Rec with the "+" branch taken at the first level of a "$" topic too.
RECURSIVE RecPlusUnguarded(_, _, _, _, _)
RecPlusUnguarded(t, lst, normal, node, i) ==
    LET level ==
            IF i = Len(lst)
            THEN IF t[node] # None THEN <<node>> ELSE <<>>
            ELSE LET part == lst[i + 1]
                 IN (IF HasChild(t, node, part)
                     THEN RecPlusUnguarded(t, lst, normal, Append(node, part), i + 1)
                     ELSE <<>>)
                    \o
                    (IF HasChild(t, node, PLUS)
                     THEN RecPlusUnguarded(t, lst, normal, Append(node, PLUS), i + 1)
                     ELSE <<>>)
        hash ==
            IF HasChild(t, node, HASH) /\ (normal \/ i > 0)
            THEN IF t[Append(node, HASH)] # None
                 THEN <<Append(node, HASH)>> ELSE <<>>
            ELSE <<>>
    IN level \o hash

\* Rec with the "#" check made at the first level of a "$" topic too.
RECURSIVE RecHashUnguarded(_, _, _, _, _)
RecHashUnguarded(t, lst, normal, node, i) ==
    LET level ==
            IF i = Len(lst)
            THEN IF t[node] # None THEN <<node>> ELSE <<>>
            ELSE LET part == lst[i + 1]
                 IN (IF HasChild(t, node, part)
                     THEN RecHashUnguarded(t, lst, normal, Append(node, part), i + 1)
                     ELSE <<>>)
                    \o
                    (IF HasChild(t, node, PLUS) /\ (normal \/ i > 0)
                     THEN RecHashUnguarded(t, lst, normal, Append(node, PLUS), i + 1)
                     ELSE <<>>)
        hash ==
            IF HasChild(t, node, HASH)
            THEN IF t[Append(node, HASH)] # None
                 THEN <<Append(node, HASH)>> ELSE <<>>
            ELSE <<>>
    IN level \o hash

\* Rec with the "#" check made once in the branch of the consumed topic and
\* once more after it.
RECURSIVE RecHashTwice(_, _, _, _, _)
RecHashTwice(t, lst, normal, node, i) ==
    LET hash ==
            IF HasChild(t, node, HASH) /\ (normal \/ i > 0)
            THEN IF t[Append(node, HASH)] # None
                 THEN <<Append(node, HASH)>> ELSE <<>>
            ELSE <<>>
        level ==
            IF i = Len(lst)
            THEN (IF t[node] # None THEN <<node>> ELSE <<>>) \o hash
            ELSE LET part == lst[i + 1]
                 IN (IF HasChild(t, node, part)
                     THEN RecHashTwice(t, lst, normal, Append(node, part), i + 1)
                     ELSE <<>>)
                    \o
                    (IF HasChild(t, node, PLUS) /\ (normal \/ i > 0)
                     THEN RecHashTwice(t, lst, normal, Append(node, PLUS), i + 1)
                     ELSE <<>>)
    IN level \o hash

\* Rec with the "#" check made only once the topic is consumed.
RECURSIVE RecHashOnlyAtEnd(_, _, _, _, _)
RecHashOnlyAtEnd(t, lst, normal, node, i) ==
    LET hash ==
            IF HasChild(t, node, HASH) /\ (normal \/ i > 0)
            THEN IF t[Append(node, HASH)] # None
                 THEN <<Append(node, HASH)>> ELSE <<>>
            ELSE <<>>
    IN IF i = Len(lst)
       THEN (IF t[node] # None THEN <<node>> ELSE <<>>) \o hash
       ELSE LET part == lst[i + 1]
            IN (IF HasChild(t, node, part)
                THEN RecHashOnlyAtEnd(t, lst, normal, Append(node, part), i + 1)
                ELSE <<>>)
               \o
               (IF HasChild(t, node, PLUS) /\ (normal \/ i > 0)
                THEN RecHashOnlyAtEnd(t, lst, normal, Append(node, PLUS), i + 1)
                ELSE <<>>)

\* Rec yielding the content of every node it visits, whether or not the
\* topic is consumed.
RECURSIVE RecYieldsEarly(_, _, _, _, _)
RecYieldsEarly(t, lst, normal, node, i) ==
    LET level ==
            (IF t[node] # None THEN <<node>> ELSE <<>>)
            \o
            (IF i = Len(lst) THEN <<>>
             ELSE LET part == lst[i + 1]
                  IN (IF HasChild(t, node, part)
                      THEN RecYieldsEarly(t, lst, normal, Append(node, part), i + 1)
                      ELSE <<>>)
                     \o
                     (IF HasChild(t, node, PLUS) /\ (normal \/ i > 0)
                      THEN RecYieldsEarly(t, lst, normal, Append(node, PLUS), i + 1)
                      ELSE <<>>))
        hash ==
            IF HasChild(t, node, HASH) /\ (normal \/ i > 0)
            THEN IF t[Append(node, HASH)] # None
                 THEN <<Append(node, HASH)>> ELSE <<>>
            ELSE <<>>
    IN level \o hash

\* iter_match.rec: the nodes whose content is yielded, in the order of the
\* yields.
RECURSIVE Rec(_, _, _, _, _)
Rec(t, lst, normal, node, i) ==
    LET level ==
            IF i = Len(lst)
            THEN IF t[node] # None THEN <<node>> ELSE <<>>
            ELSE LET part == lst[i + 1]
                 IN (IF HasChild(t, node, part)
                     THEN Rec(t, lst, normal, Append(node, part), i + 1)
                     ELSE <<>>)
                    \o
                    (IF HasChild(t, node, PLUS) /\ (normal \/ i > 0)
                     THEN Rec(t, lst, normal, Append(node, PLUS), i + 1)
                     ELSE <<>>)
        hash ==
            IF HasChild(t, node, HASH) /\ (normal \/ i > 0)
            THEN IF t[Append(node, HASH)] # None
                 THEN <<Append(node, HASH)>> ELSE <<>>
            ELSE <<>>
    IN level \o hash

\* iter_match, consumed to the end: the nodes that yield.
IterMatchNodes(t, topic) ==
    Rec(t, Split(topic), ~StartsWithDollar(topic), <<>>, 0)

\* iter_match, consumed to the end: the values yielded.
IterMatch(t, topic) ==
    LET ns == IterMatchNodes(t, topic)
    IN [j \in 1..Len(ns) |-> t[ns[j]]]

\* -------------------------------------------------- the generator, by pulls
\* The generator iter_match returns is a stack of frames of rec, the last
\* one on top.  A frame holds its node, its index i and the place it is
\* suspended at:
\*   "start"  not run yet
\*   "self"   at the yield of node.content
\*   "lit"    in the yield from of the child for the topic's segment
\*   "plus"   in the yield from of the child "+"
\*   "hash"   at the yield of the content of the child "#"
\* ("toplus" and "tohash" are the tests that follow, never a place to wait).
\* A frame holds a node, not a path: when del parent.children[k] takes the
\* node out of the tree the frame keeps it, with what it then has under it
\* (gone, kept), and no later set reaches it.
Frame(node, i, pc, gone, kept) ==
    [node |-> node, i |-> i, pc |-> pc, gone |-> gone, kept |-> kept]

RootFrame == Frame(<<>>, 0, "start", FALSE, <<>>)

\* The node the frame holds, as a tree to look things up in.
FrameTree(t, f) == IF f.gone THEN f.kept ELSE t

\* rec(node.children[sym], i + 1)
ChildFrame(f, sym) == Frame(Append(f.node, sym), f.i + 1, "start", f.gone, f.kept)

\* The test of line 89 left out: node.children[part] is evaluated anyway.
LiteralGuardMissing(t, f, part) == TRUE

\* if part in node.children
LiteralGuard(t, f, part) == HasChild(FrameTree(t, f), f.node, part)

\* The test of line 91 without the exemption of "$" topics.
PlusGuardUnreserved(t, f, normal) == HasChild(FrameTree(t, f), f.node, PLUS)

\* if "+" in node.children and (normal or i > 0)
PlusGuard(t, f, normal) ==
    HasChild(FrameTree(t, f), f.node, PLUS) /\ (normal \/ f.i > 0)

\* if "#" in node.children and (normal or i > 0)
HashGuard(t, f, normal) ==
    HasChild(FrameTree(t, f), f.node, HASH) /\ (normal \/ f.i > 0)

Stopped == [stack |-> <<>>, out |-> None, node |-> <<>>, ok |-> TRUE]
Raised == [stack |-> <<>>, out |-> None, node |-> <<>>, ok |-> FALSE]

\* next(generator): rec runs from where it is suspended to its next yield
\* (out: the value, node: the node it is the content of), to its end
\* (StopIteration: out is None) or to a KeyError of node.children[...]
\* (ok is FALSE).
RECURSIVE Advance(_, _, _, _)
Advance(t, lst, normal, stack) ==
    IF stack = <<>> THEN Stopped
    ELSE
    LET f == stack[Len(stack)]
        below == SubSeq(stack, 1, Len(stack) - 1)
        tree == FrameTree(t, f)
        Goto(pc) == Advance(t, lst, normal, Append(below, [f EXCEPT !.pc = pc]))
        Enter(pc, sym) ==
            IF HasChild(tree, f.node, sym)
            THEN Advance(t, lst, normal,
                         below \o <<[f EXCEPT !.pc = pc], ChildFrame(f, sym)>>)
            ELSE Raised
        Yield(pc, node) ==
            [stack |-> Append(below, [f EXCEPT !.pc = pc]),
             out |-> tree[node], node |-> node, ok |-> TRUE]
    IN CASE f.pc = "start" ->
                IF f.i = Len(lst)
                THEN IF tree[f.node] # None THEN Yield("self", f.node)
                     ELSE Goto("tohash")
                ELSE IF LiteralGuard(t, f, lst[f.i + 1])
                     THEN Enter("lit", lst[f.i + 1])
                     ELSE Goto("toplus")
         [] f.pc = "self" -> Goto("tohash")
         [] f.pc = "lit" -> Goto("toplus")
         [] f.pc = "toplus" ->
                IF PlusGuard(t, f, normal) THEN Enter("plus", PLUS)
                ELSE Goto("tohash")
         [] f.pc = "plus" -> Goto("tohash")
         [] f.pc = "tohash" ->
                IF HashGuard(t, f, normal)
                THEN IF tree[Append(f.node, HASH)] # None
                     THEN Yield("hash", Append(f.node, HASH))
                     ELSE Advance(t, lst, normal, below)
                ELSE Advance(t, lst, normal, below)
         [] f.pc = "hash" -> Advance(t, lst, normal, below)

\* rec assigns to no node and to no children map: the tree after a pull.
PullTreeSetdefault(t, stack) ==
    IF stack = <<>> \/ stack[Len(stack)].gone THEN t
    ELSE [p \in DOMAIN t \cup {Append(stack[Len(stack)].node, PLUS)} |->
                IF p \in DOMAIN t THEN t[p] ELSE None]

PullTree(t, stack) == t

\* No more pulls than this are needed to exhaust a generator on lst: rec has
\* at most two children per frame, len(lst) levels deep, and each frame yields
\* at most twice.
Fuel(lst) == 2 ^ (Len(lst) + 2)

\* The generator pulled until it stops, raises or the fuel runs out: the
\* nodes whose contents it yielded.
RECURSIVE Drain(_, _, _, _, _, _)
Drain(t, lst, normal, stack, fuel, acc) ==
    IF fuel = 0 THEN [nodes |-> acc, ok |-> TRUE, done |-> FALSE]
    ELSE LET r == Advance(t, lst, normal, stack)
         IN IF ~r.ok THEN [nodes |-> acc, ok |-> FALSE, done |-> TRUE]
            ELSE IF r.out = None THEN [nodes |-> acc, ok |-> TRUE, done |-> TRUE]
            ELSE Drain(t, lst, normal, r.stack, fuel - 1, Append(acc, r.node))

\* list(iter_match(topic)), pull by pull.
Consume(t, topic) ==
    Drain(t, Split(topic), ~StartsWithDollar(topic), <<RootFrame>>,
          Fuel(Split(topic)), <<>>)

\* The generator object: none, "suspended" (created, or waiting at a
\* yield), "done" (it has raised StopIteration) or "failed" (it has raised
\* an error).  lst and normal are the variables of iter_match that rec
\* closes over.  mutated: set or delete was called since it was created.
NoIter ==
    [state |-> "none", topic |-> <<>>, lst |-> <<>>, normal |-> TRUE,
     stack |-> <<>>, mutated |-> FALSE]

\* iter_match(topic): lst, normal and the generator rec(self._root), not run.
NewIter(topic) ==
    [state |-> "suspended", topic |-> topic, lst |-> Split(topic),
     normal |-> ~StartsWithDollar(topic), stack |-> <<RootFrame>>,
     mutated |-> FALSE]

\* What a frame keeps of the tree c (the tree once the content at segs is
\* cleared) when the pruning loop on the path segs takes its node out: the
\* node and what is under it, less what the loop took out of it before.
KeptOf(c, segs, node) ==
    [p \in {q \in DOMAIN c :
                /\ IsPrefix(node, q)
                /\ q = node \/ ~\E r \in Prefixes(segs) :
                                    Len(r) > Len(node) /\ IsPrefix(r, q)}
        |-> c[p]]

\* The frames of the generator g once __delitem__(key) has made of the tree
\* t the tree u.
Detach(g, t, key, u) ==
    IF g.state = "none" THEN g
    ELSE [g EXCEPT
            !.mutated = TRUE,
            !.stack = [j \in DOMAIN g.stack |->
                LET f == g.stack[j]
                IN IF f.gone \/ f.node \in DOMAIN u THEN f
                   ELSE [f EXCEPT !.gone = TRUE,
                                  !.kept = KeptOf(DelTry(t, key).trie,
                                                  Split(key), f.node)]]]

Touch(g) == IF g.state = "none" THEN g ELSE [g EXCEPT !.mutated = TRUE]

\* ------------------------------------------------------------- the state
\* trie: the tree under self._root.
\* reg:  the filter-to-value map a caller expects (None: not registered),
\*       kept alongside the tree: set(F, V) maps F to V, a delete(F) that
\*       returns normally unmaps F.
\* op:   the call that has just returned or raised, with its outcome, until
\*       the caller has taken it; Idle between calls.
\* it:   the generator of the iter_match call the caller consumes by pulls,
\*       if any.
VARIABLES trie, reg, op, it

vars == <<trie, reg, op, it>>

\* kind, key, val: the call and its arguments (key is the topic of a match);
\* was: what reg mapped key to when the call started; ok: the call returned
\* normally (val: the value get returned; out, nodes: what iter_match
\* yielded); otherwise err is the argument of the KeyError raised.
Call(kind, key, val, was, ok, err, out, nodes) ==
    [kind |-> kind, key |-> key, val |-> val, was |-> was, ok |-> ok,
     err |-> err, out |-> out, nodes |-> nodes]

Idle == Call("idle", <<>>, None, None, TRUE, <<>>, <<>>, <<>>)

Init ==
    /\ trie = EmptyTrie
    /\ reg = [k \in Keys |-> None]
    /\ op = Idle
    /\ it = NoIter

\* matcher[key] = value
Set(key, value) ==
    /\ op = Idle
    /\ Cardinality(DOMAIN Setitem(trie, key, value)) <= MaxNodes + 1
    /\ trie' = Setitem(trie, key, value)
    /\ reg' = [reg EXCEPT ![key] = value]
    /\ op' = Call("set", key, value, reg[key], TRUE, <<>>, <<>>, <<>>)
    /\ it' = Touch(it)

\* matcher[key]
Get(key) ==
    LET r == Getitem(trie, key)
    IN /\ op = Idle
       /\ op' = Call("get", key, r.val, reg[key], r.ok, r.err, <<>>, <<>>)
       /\ UNCHANGED <<trie, reg, it>>

\* del matcher[key]
Delete(key) ==
    LET r == Delitem(trie, key)
    IN /\ op = Idle
       /\ trie' = r.trie
       /\ reg' = IF r.ok THEN [reg EXCEPT ![key] = None] ELSE reg
       /\ op' = Call("delete", key, None, reg[key], r.ok, r.err, <<>>, <<>>)
       /\ it' = Detach(it, trie, key, r.trie)

\* list(matcher.iter_match(topic))
Match(topic) ==
    /\ op = Idle
    /\ op' = Call("match", topic, None, None, TRUE, <<>>,
                  IterMatch(trie, topic), IterMatchNodes(trie, topic))
    /\ UNCHANGED <<trie, reg, it>>

\* The caller has taken the outcome of the call; the next call can start.
Return ==
    /\ op # Idle
    /\ op' = Idle
    /\ UNCHANGED <<trie, reg, it>>

Next ==
    \/ \E key \in Keys, value \in Values \cup {None} : Set(key, value)
    \/ \E key \in Keys : Get(key)
    \/ \E key \in Keys : Delete(key)
    \/ \E topic \in Topics : Match(topic)
    \/ Return

Spec == Init /\ [][Next]_vars

\* g = matcher.iter_match(topic)
IterStart(topic) ==
    /\ op = Idle
    /\ it = NoIter
    /\ it' = NewIter(topic)
    /\ UNCHANGED <<trie, reg, op>>

\* next(g)
Pull ==
    LET r == Advance(trie, it.lst, it.normal, it.stack)
    IN /\ op = Idle
       /\ it.state = "suspended"
       /\ it' = [it EXCEPT
                    !.stack = r.stack,
                    !.state = IF ~r.ok THEN "failed"
                              ELSE IF r.out = None THEN "done"
                              ELSE "suspended"]
       /\ op' = Call("pull", it.topic, r.out, None, r.ok, <<>>,
                     IF r.out = None THEN <<>> ELSE <<r.out>>,
                     IF r.out = None THEN <<>> ELSE <<r.node>>)
       /\ trie' = PullTree(trie, it.stack)
       /\ UNCHANGED reg

\* The caller drops g, consumed or not.
Close ==
    /\ op = Idle
    /\ it # NoIter
    /\ it' = NoIter
    /\ UNCHANGED <<trie, reg, op>>

\* The calls a caller makes while it consumes one generator pull by pull.
NextIter ==
    \/ \E key \in Keys, value \in Values \cup {None} : Set(key, value)
    \/ \E key \in Keys : Delete(key)
    \/ Return
    \/ \E topic \in Topics : IterStart(topic)
    \/ Pull
    \/ Close

SpecIter == Init /\ [][NextIter]_vars

\* ------------------------------------------------------------ vocabulary
Range(f) == {f[j] : j \in DOMAIN f}

\* The filters a caller has registered with a value and not deleted since.
Registered == {F \in Keys : reg[F] # None}

\* The reference rule, segment by segment: a literal segment matches the
\* equal segment, "+" matches one segment, a final "#" matches all the
\* remaining segments, none included.
RECURSIVE SegMatch(_, _)
SegMatch(f, tp) ==
    IF f = <<>> THEN tp = <<>>
    ELSE IF Head(f) = HASH /\ Len(f) = 1 THEN TRUE
    ELSE IF tp = <<>> THEN FALSE
    ELSE (Head(f) = PLUS \/ Head(f) = Head(tp)) /\ SegMatch(Tail(f), Tail(tp))

\* ... and a "+" or "#" in first position matches no topic that starts with "$".
RefMatches(F, T) ==
    /\ ~(StartsWithDollar(T) /\ Head(Split(F)) \in {PLUS, HASH})
    /\ SegMatch(Split(F), Split(T))

\* No node but the root is without child and without content.
NoEmptyNode(t) ==
    \A p \in DOMAIN t \ {<<>>} : HasChildren(t, p) \/ t[p] # None

\* "#" is the last segment of every path it occurs in.
HashOnlyLast(t) ==
    \A p \in DOMAIN t : \A j \in 1..(Len(p) - 1) : p[j] # HASH

\* The trees that set and delete calls with values other than None and
\* filters with "#" in last position only can build.
PlainTrie(t) == NoEmptyNode(t) /\ HashOnlyLast(t)

NoWildcardSegment(T) == \A j \in DOMAIN Split(T) : Split(T)[j] \notin {PLUS, HASH}

\* ------------------------------------------------------------------ C1
\* C1: in a tree built with values other than None and filters with "#" in
\* last position only, the set of values iter_match(topic) yields is the set
\* of values of the registered filters that match the topic under the
\* reference rule.
C1_MatchIsReference ==
    (op.kind = "match" /\ PlainTrie(trie))
        => Range(op.out) = {reg[F] : F \in {G \in Registered : RefMatches(G, op.key)}}

\* Two filters with different values match the topic, one of them through a
\* wildcard, and both values are yielded.
C1_Witness ==
    /\ op.kind = "match" /\ PlainTrie(trie)
    /\ Range(op.out) = {1, 2}
    /\ \E F \in Registered : RefMatches(F, op.key) /\ F # op.key

\* ------------------------------------------------------------------ C2
\* C2: for a topic that starts with "$", iter_match never yields the content
\* of a node under a first-level "+" or "#", and a registered filter whose
\* first segment is the topic's first segment is yielded exactly when it
\* matches under the wildcard rule.
C2_ReservedTopic ==
    (op.kind = "match" /\ StartsWithDollar(op.key))
        => /\ \A j \in DOMAIN op.nodes : op.nodes[j][1] \notin {PLUS, HASH}
           /\ \A F \in Registered :
                Head(Split(F)) = Head(Split(op.key))
                    => (Split(F) \in Range(op.nodes)
                            <=> SegMatch(Split(F), Split(op.key)))

\* A "$" topic was matched while a filter that starts with a wildcard and
\* would match it by the wildcard rule alone is registered, and the only
\* value yielded comes from a filter that starts with the topic's own first
\* segment.
C2_Witness ==
    /\ op.kind = "match" /\ StartsWithDollar(op.key)
    /\ \E F \in Registered :
            Head(Split(F)) \in {PLUS, HASH} /\ SegMatch(Split(F), Split(op.key))
    /\ Len(op.nodes) = 1
    /\ op.nodes[1][1] = Head(Split(op.key))

\* ------------------------------------------------------------------ C3
NoDuplicate(seq) == \A i, j \in DOMAIN seq : i # j => seq[i] # seq[j]

\* C3 as stated: for every topic, segments "+" and "#" included, iter_match
\* yields the content of each node at most once and no more elements than
\* there are registered filters.
C3_AtMostOnce_AnyTopic ==
    op.kind = "match"
        => NoDuplicate(op.nodes) /\ Len(op.out) <= Cardinality(Registered)

\* C3 amended: for every topic none of whose segments is "+" or "#",
\* iter_match yields the content of each node at most once and no more
\* elements than there are registered filters.
C3_AtMostOnce ==
    (op.kind = "match" /\ NoWildcardSegment(op.key))
        => NoDuplicate(op.nodes) /\ Len(op.out) <= Cardinality(Registered)

\* A topic without wildcard segment was matched and every registered filter
\* yielded, through a literal and through a wildcard.
C3_Witness ==
    /\ op.kind = "match" /\ NoWildcardSegment(op.key)
    /\ Len(op.out) = 2 /\ Cardinality(Registered) = 2
    /\ \E j \in DOMAIN op.nodes : op.nodes[j][Len(op.nodes[j])] \in {PLUS, HASH}

\* ------------------------------------------------------------------ C4
Returned(v) == [ok |-> TRUE, val |-> v, err |-> <<>>]

\* C4 as stated: for any value V, None included, get(F) right after
\* set(F, V) returns V, and get(F) returns what the last set(F, _) stored
\* while no delete(F) has returned since.
C4_GetReturnsLastSet_AnyValue ==
    /\ op.kind = "set" => Getitem(trie, op.key) = Returned(op.val)
    /\ (op.kind = "get" /\ op.key \in Registered)
            => op.ok /\ op.val = reg[op.key]

\* C4 amended: for any value V other than None, get(F) right after
\* set(F, V) returns V, and get(F) returns what the last set(F, _) stored
\* while no delete(F) has returned since.
C4_GetReturnsLastSet ==
    /\ (op.kind = "set" /\ op.val # None)
            => Getitem(trie, op.key) = Returned(op.val)
    /\ (op.kind = "get" /\ op.key \in Registered)
            => op.ok /\ op.val = reg[op.key]

\* set(F, V2) has just overwritten another value of F while a second filter
\* is registered, and get(F) returns V2.
C4_Witness ==
    /\ op.kind = "set" /\ op.val # None
    /\ op.was # None /\ op.was # op.val
    /\ Getitem(trie, op.key) = Returned(op.val)
    /\ Cardinality(Registered) = 2

\* ------------------------------------------------------------------ C5
\* C5: delete(F) raises KeyError whenever F is not registered when it is
\* called, be it that a node of F's path is missing or that F's node exists
\* without content.
C5_DeleteUnregisteredFails ==
    [][(/\ op'.kind = "delete"
        /\ op'.key \notin Registered
        /\ \/ FirstMissing(trie, Split(op'.key)) # 0
           \/ \E G \in Registered : Split(op'.key) \in Prefixes(Split(G)))
            => ~op'.ok]_vars

\* ------------------------------------------------------------------ C6
\* C6: get(F) returns the value of F if F is registered, and otherwise
\* raises KeyError(F), with the queried filter string as its argument.
C6_GetIffRegistered ==
    op.kind = "get"
        => IF op.key \in Registered
           THEN op.ok /\ op.val = reg[op.key]
           ELSE ~op.ok /\ op.err = op.key

\* get(F) failed on a filter of two segments whose first node exists and
\* whose second node is missing.
C6_Witness ==
    /\ op.kind = "get" /\ ~op.ok /\ op.err = op.key
    /\ Len(Split(op.key)) = 2
    /\ SubSeq(Split(op.key), 1, 1) \in DOMAIN trie
    /\ Split(op.key) \notin DOMAIN trie

\* ------------------------------------------------------------------ C7
\* C7: a get or a delete that raises KeyError leaves the tree as it was:
\* the same nodes with the same contents.
C7_FailureLeavesTrie ==
    [][((op'.kind = "get" \/ op'.kind = "delete") /\ ~op'.ok) => trie' = trie]_vars

\* delete(F) failed at the second segment of F, under a first node that
\* holds a value, and get of that first node's filter still returns it.
C7_Witness ==
    /\ op.kind = "delete" /\ ~op.ok
    /\ Len(Split(op.key)) = 2
    /\ SubSeq(Split(op.key), 1, 1) \in DOMAIN trie
    /\ trie[SubSeq(Split(op.key), 1, 1)] # None
    /\ \E G \in Registered : Split(G) = SubSeq(Split(op.key), 1, 1)
                                /\ Getitem(trie, G) = Returned(reg[G])

\* ------------------------------------------------------------------ C8
\* C8: once delete(F) has returned for a registered F, and as long as F is
\* not set again, get(F) raises KeyError(F) and iter_match yields the
\* content of F's node for no topic.
C8_DeletedIsGone ==
    /\ (op.kind = "delete" /\ op.ok /\ op.was # None)
            => /\ ~Getitem(trie, op.key).ok
               /\ \A T \in Topics : Split(op.key) \notin Range(IterMatchNodes(trie, T))
    /\ op.kind = "match"
            => \A F \in Keys \ Registered : Split(F) \notin Range(op.nodes)
    /\ (op.kind = "get" /\ op.key \notin Registered)
            => ~op.ok /\ op.err = op.key

\* delete(F) has returned for a registered F whose node stays in the tree,
\* as the prefix of another registered filter.
C8_Witness ==
    /\ op.kind = "delete" /\ op.ok /\ op.was # None
    /\ Split(op.key) \in DOMAIN trie
    /\ Registered # {}
    /\ ~Getitem(trie, op.key).ok

\* ------------------------------------------------------------------ C9
\* The node p of the path segs is left without content and without child
\* once the content at segs is cleared and the path below p is removed.
EmptyOnPath(t, segs, p) ==
    /\ p = segs \/ t[p] = None
    /\ \A q \in DOMAIN t :
            (Len(q) = Len(p) + 1 /\ SubSeq(q, 1, Len(p)) = p) => q \in Prefixes(segs)

C10_NoEmptyNode_AnyValue == NoEmptyNode(trie)

\* C10 amended: after any set and delete calls with values other than None,
\* no node but the root is without child and without content: the tree
\* starts so and every such call keeps it so.
C10_NoEmptyNode ==
    /\ NoEmptyNode(trie)
    /\ [][(NoEmptyNode(trie) /\ ~(op'.kind = "set" /\ op'.val = None))
            => NoEmptyNode(trie')]_vars

\* delete(F) has removed both nodes of the only registered filter.
C10_Witness ==
    /\ op.kind = "delete" /\ op.ok /\ op.was # None
    /\ Len(Split(op.key)) = 2
    /\ trie = EmptyTrie

\* ----------------------------------------------------------------- C11
\* C11 as stated: after any set and delete calls, whatever the values, a
\* node has a content exactly when its path is a filter that was set and not
\* deleted since, and the root has none.
C11_ContentIffSet_AnyValue ==
    /\ trie[<<>>] = None
    /\ \A p \in DOMAIN trie \ {<<>>} : trie[p] # None <=> Join(p) \in Registered
    /\ \A F \in Registered : Split(F) \in DOMAIN trie /\ trie[Split(F)] = reg[F]
    /\ op.kind = "set"
            => Split(op.key) \in DOMAIN trie /\ trie[Split(op.key)] # None

\* C11 amended: a node has a content exactly when its path is a filter that
\* was set to a value other than None and neither deleted nor set to None
\* since, and the root has none.
C11_ContentIffSet ==
    /\ trie[<<>>] = None
    /\ \A p \in DOMAIN trie \ {<<>>} : trie[p] # None <=> Join(p) \in Registered
    /\ \A F \in Registered : Split(F) \in DOMAIN trie /\ trie[Split(F)] = reg[F]
    /\ (op.kind = "set" /\ op.val # None)
            => Split(op.key) \in DOMAIN trie /\ trie[Split(op.key)] = op.val

\* delete(F) has returned for a registered F whose node stays in the tree,
\* without content, above the node of a registered filter.
C11_Witness ==
    /\ op.kind = "delete" /\ op.ok /\ op.was # None
    /\ Split(op.key) \in DOMAIN trie /\ trie[Split(op.key)] = None
    /\ \E G \in Registered : trie[Split(G)] = reg[G]

\* ----------------------------------------------------------------- C13
Front(seq) == SubSeq(seq, 1, Len(seq) - 1)

\* The segments P match the first segments of the topic tp one by one.
PrefixMatch(P, tp) ==
    /\ Len(P) <= Len(tp)
    /\ \A j \in 1..Len(P) : P[j] = PLUS \/ P[j] = tp[j]

HashFilters == {F \in Registered : Split(F)[Len(Split(F))] = HASH}

\* C13 as stated: a registered filter P/#, or "#", is yielded for every
\* topic that has a prefix matched by P, whatever the number of segments that
\* remain, none included.
C13_HashAtEveryDepth_AnyTopic ==
    op.kind = "match"
        => \A F \in HashFilters :
                PrefixMatch(Front(Split(F)), Split(op.key))
                    => Split(F) \in Range(op.nodes)

\* C13 amended: ... for every such topic, except that a filter whose first
\* segment is "+" or "#" is not yielded for a topic that starts with "$".
C13_HashAtEveryDepth ==
    op.kind = "match"
        => \A F \in HashFilters :
                (/\ PrefixMatch(Front(Split(F)), Split(op.key))
                 /\ ~(StartsWithDollar(op.key) /\ Head(Split(F)) \in {PLUS, HASH}))
                    => Split(F) \in Range(op.nodes)

\* A filter P/# with P not empty is yielded for a topic that P matches
\* whole: no segment remains for "#".
C13_Witness ==
    /\ op.kind = "match"
    /\ \E F \in HashFilters :
            /\ Len(Split(F)) = Len(Split(op.key)) + 1
            /\ PrefixMatch(Front(Split(F)), Split(op.key))
            /\ Split(F) \in Range(op.nodes)

\* ----------------------------------------------------------------- C14
HasHashSegment(p) == \E j \in DOMAIN p : p[j] = HASH

\* C14: a filter without "#" segment is yielded only for topics that have as
\* many segments as the filter.
C14_SameLength ==
    op.kind = "match"
        => \A j \in DOMAIN op.nodes :
                ~HasHashSegment(op.nodes[j])
                    => Len(op.nodes[j]) = Len(Split(op.key))

\* A registered filter without "#" matches the first segment of a longer
\* topic, or its first segment matches a shorter topic, and is not yielded.
C14_Witness ==
    /\ op.kind = "match"
    /\ \E F \in Registered :
            /\ ~HasHashSegment(Split(F))
            /\ Len(Split(F)) # Len(Split(op.key))
            /\ \/ PrefixMatch(Split(F), Split(op.key))
               \/ PrefixMatch(Front(Split(F)), Split(op.key))
            /\ Split(F) \notin Range(op.nodes)

\* ----------------------------------------------------------------- C15
\* C15: set(F, V) adds exactly the nodes of F's path that are missing, each
\* without content but the last, changes no content but that of F's node,
\* adds no node when F is registered, gives the same tree when done twice,
\* and leaves get(G) as it was for every other filter G.
C15_SetFrame ==
    [][op'.kind = "set"
        => LET segs == Split(op'.key)
           IN /\ DOMAIN trie' = DOMAIN trie \cup Prefixes(segs)
              /\ Cardinality(DOMAIN trie') = Cardinality(DOMAIN trie)
                    + Cardinality({i \in 1..Len(segs) :
                                        SubSeq(segs, 1, i) \notin DOMAIN trie})
              /\ \A p \in DOMAIN trie : p # segs => trie'[p] = trie[p]
              /\ \A p \in DOMAIN trie' \ DOMAIN trie : p # segs => trie'[p] = None
              /\ trie'[segs] = op'.val
              /\ op'.key \in Registered => DOMAIN trie' = DOMAIN trie
              /\ Setitem(trie', op'.key, op'.val) = trie'
              /\ \A G \in Keys \ {op'.key} : Getitem(trie', G) = Getitem(trie, G)
      ]_vars

\* set(F, V) has given a value to a node that existed without content, above
\* the node of a registered filter, and added no node.
C15_Witness ==
    /\ op.kind = "set" /\ op.was = None /\ op.val # None
    /\ Cardinality(DOMAIN trie) = 3
    /\ Cardinality(Registered) = 2
    /\ \E G \in Registered : Split(op.key) \in Prefixes(Split(G)) /\ G # op.key

\* ----------------------------------------------------------------- C17
\* C17: in a tree without empty node, set(F, V) of a filter F that is not
\* registered, with V other than None, followed by delete(F) gives back the
\* tree as it was before the set.
C17_SetThenDelete ==
    [][(/\ op'.kind = "set" /\ op'.val # None
        /\ op'.key \notin Registered
        /\ NoEmptyNode(trie))
            => Delitem(trie', op'.key) = [ok |-> TRUE, trie |-> trie, err |-> <<>>]
      ]_vars

\* set(F, V) has just added the two nodes of F's path to the empty tree, and
\* delete(F) removes both.
C17_Witness ==
    /\ op.kind = "set" /\ op.was = None /\ op.val # None
    /\ Cardinality(DOMAIN trie) = 3
    /\ Cardinality(Registered) = 1
    /\ Delitem(trie, op.key).trie = EmptyTrie


\* ------------------------------------------------------------------ C12
\* C12: iter_match raises for no topic and terminates: pulled to its end,
\* the generator of any topic on any tree raises no error, stops within the
\* fuel, has yielded what the traversal yields, and has yielded nothing when
\* no registered filter matches the topic.
C12_MatchTotal ==
    op.kind = "match" =>
        LET c == Consume(trie, op.key)
        IN /\ c.ok
           /\ c.done
           /\ c.nodes = op.nodes
           /\ (~\E F \in Registered : RefMatches(F, op.key)) => op.out = <<>>

\* A topic of two segments matched by nothing, on a tree that has a node
\* for its first segment.
C12_Witness ==
    /\ op.kind = "match"
    /\ op.out = <<>>
    /\ Registered # {}
    /\ Len(Split(op.key)) = 2
    /\ HasChild(trie, <<>>, Split(op.key)[1])

\* ------------------------------------------------------------------ C16
\* C16: creating a generator, pulling from it and dropping it, consumed or
\* not, leave the tree and the registrations as they are.
C16_IterationReadsOnly ==
    [][(op'.kind = "pull" \/ (it = NoIter) # (it' = NoIter))
            => trie' = trie /\ reg' = reg]_vars

\* A generator that has yielded a value and has another one to yield.
C16_Witness ==
    /\ op.kind = "pull"
    /\ op.val # None
    /\ ~it.mutated
    /\ Advance(trie, it.lst, it.normal, it.stack).out # None

\* ------------------------------------------------------------------ C18
PcRank(pc) ==
    CASE pc = "start" -> 0
      [] pc \in {"self", "lit"} -> 1
      [] pc = "plus" -> 2
      [] pc = "hash" -> 3

\* The frames of a stack read as the digits of a number, the root frame first.
RECURSIVE StackRank(_, _)
StackRank(stack, width) ==
    IF stack = <<>> THEN 0
    ELSE PcRank(Head(stack).pc) * 4 ^ width + StackRank(Tail(stack), width - 1)

\* How far the generator is: more than any stack when it is over.
Rank(g) ==
    IF g.state = "suspended" THEN StackRank(g.stack, Len(g.lst))
    ELSE 4 ^ (Len(g.lst) + 1)

\* C18: with set and delete called between the pulls, no pull raises, every
\* pull takes the generator strictly further (so the pulls end), and a value
\* a pull yields is at that moment the value of a registered filter that
\* matches the topic, read from a node that is in the tree.
C18_PullAmongMutations ==
    [][op'.kind = "pull" =>
        /\ op'.ok
        /\ Rank(it') > Rank(it)
        /\ op'.val # None =>
             LET n == op'.nodes[1]
             IN /\ ~it'.stack[Len(it'.stack)].gone
                /\ n \in DOMAIN trie'
                /\ trie'[n] = op'.val
                /\ reg'[Join(n)] = op'.val
                /\ RefMatches(Join(n), op'.key)]_vars

\* A value yielded by a generator under which the tree was changed, while a
\* frame below the yielding one waits in a child.
C18_Witness ==
    /\ op.kind = "pull"
    /\ op.val # None
    /\ it.mutated
    /\ Len(it.stack) > 1

====
